---- MODULE Spec2Model ----
(***************************************************************************)
(* Mesh ingestion of dpb4/graphics-fundamentals: the line loop of          *)
(* parse_obj (src/src/obj_parse.rs), with its face-vertex deduplication.   *)
(*                                                                         *)
(* A line of the file is a record [head, toks]: head is the text of the    *)
(* line up to the end of its first whitespace-separated token, as a        *)
(* sequence of characters, and toks are the tokens that follow it (what    *)
(* split_ascii_whitespace().skip(1) yields).  The tokens of a face line    *)
(* are read one at a time, in the order the loop over the parsed line      *)
(* resolves them: parse_face_line has no failing path, so parsing token k  *)
(* right before resolving it gives what parsing the whole line first gives.*)
(***************************************************************************)
EXTENDS Integers, Sequences, FiniteSets, TLC

VARIABLES
    pc,                   \* where parse_obj is: "line", "face", "ok", "err", "panic"
    overflow_checks,      \* the build traps integer overflow (debug) or wraps (release)
    nread,                \* lines read so far
    line,                 \* the line read last; a face line, up to the token read last
    raw_verts, raw_uvs, raw_normals,
    face_vert_index_map, indices, model_verts,
    material, material_lib,
    err,                  \* the OBJLoadError::Parse returned, if any
    tokens,               \* the face-vertex tokens resolved so far: tokens[k] gave indices[k]
    refs,                 \* the mtllib and usemtl lines read so far
    \* parse_mtl and parse_all_mtls
    mpc,                  \* "idle", "line", "ok", "err", "notfound", "panic"
    mname,                \* the name argument of parse_mtl
    mread,                \* lines read so far
    mline,                \* the line read last
    mfile,                \* the lines read so far, in order
    match_found, parsed,
    first_mtl, current_parsed, all_parsed,
    merr,                 \* the MTLLoadError::Parse returned, if any
    \* the tangent pass: Mesh::from_verts_inds and calculate_tbs
    tpc,                  \* "idle", "wait", "start", "accumulate", "finalize",
                          \* "done", "panic"
    variant,              \* which of the two functions runs
    verts, inds,          \* the vertex array and the index buffer
    chunk,                \* chunks of inds.chunks(3) gone through
    vi,                   \* vertices the last loop has gone through
    vertex_face_count,
    index_count,          \* of the Mesh returned
    material_slot,        \* the material argument of from_verts_inds
    mesh_material,        \* the material of the Mesh returned
    given,                \* the vertex array as it was passed in
    fin_count             \* how often the last loop was at each vertex

objvars == <<pc, overflow_checks, nread, line, raw_verts, raw_uvs, raw_normals,
             face_vert_index_map, indices, model_verts, material, material_lib,
             err, tokens, refs>>

\* the state of the other operations, which parse_obj leaves alone
mtlvars == <<mpc, mname, mread, mline, mfile, match_found, parsed, first_mtl,
             current_parsed, all_parsed, merr>>
tbvars == <<tpc, variant, verts, inds, chunk, vi, vertex_face_count,
            index_count, material_slot, mesh_material, given, fin_count>>
others == <<mtlvars, tbvars>>

vars == <<objvars, others>>

(***************************************************************************)
(* Bounds of the model.                                                    *)
(***************************************************************************)
MaxLines == 4
MaxInds == 3
MaxVecToks == 4
MaxMtlLines == 4
MaxTris == 2
MaxFanTris == 3
MaxFileLines == 8

(***************************************************************************)
(* Option and Result values.                                               *)
(***************************************************************************)
None == <<>>
Some(x) == <<x>>
Ok(x) == <<"Ok", x>>
Err == <<"Err", 0>>
IsOk(r) == r[1] = "Ok"

(***************************************************************************)
(* Text.                                                                   *)
(***************************************************************************)
StartsWith(s, p) == Len(p) <= Len(s) /\ SubSeq(s, 1, Len(p)) = p

Num(x) == <<"num", x>>
BadTok == <<"bad", 0>>
Word(n) == <<"word", n>>

\* s.parse::<f32>() of one token
ParseF32(tok) == IF tok[1] = "num" THEN Ok(tok[2]) ELSE Err

\* the groups of a face-vertex token, split at "/"
Idx(n) == <<"int", n>>
Empty == <<"empty", 0>>
BadGroup == <<"bad", 0>>
\* a group written with a minus sign, -n
Neg(n) == <<"neg", n>>

\* i.parse::<u32>() of one group
ParseU32(g) == IF g[1] = "int" THEN Ok(g[2]) ELSE Err

UnwrapOr(r, d) == IF IsOk(r) THEN r[2] ELSE d

\* Vec::resize(n, d)
Resize(v, n, d) == [i \in 1..n |-> IF i <= Len(v) THEN v[i] ELSE d]

\* collect() of an iterator of Results into Result<Vec<_>, _>
Collect(rs) ==
    IF \A i \in 1..Len(rs) : IsOk(rs[i])
    THEN Ok([i \in 1..Len(rs) |-> rs[i][2]])
    ELSE Err

parse_vector_line(l) == Collect([i \in 1..Len(l.toks) |-> ParseF32(l.toks[i])])

\* the closure parse_face_line maps over the tokens of the line
parse_face_vert(ft) ==
    Resize([i \in 1..Len(ft) |-> UnwrapOr(ParseU32(ft[i]), 1)], 3, 1)

NextTokenSkip2(l) == IF Len(l.toks) >= 2 THEN Some(l.toks[2]) ELSE None

\* split_ascii_whitespace().skip(1).next() of a line
NextToken(l) == IF Len(l.toks) >= 1 THEN Some(l.toks[1]) ELSE None

(***************************************************************************)
(* Vectors are indexed from 0, as in the source.                           *)
(***************************************************************************)
\* usize::MAX; only its exceeding every vector length matters here
UsizeMax == 2147483647

\* `n as usize - 1` where the build does not trap the overflow
WrappingSubOne(n) == IF n = 0 THEN UsizeMax ELSE n - 1

\* slice.get(i)
VecGet(v, i) == IF i < Len(v) THEN Some(v[i + 1]) ELSE None

OptUnwrapOr(o, d) == IF o = None THEN d ELSE o[1]

MapGetNever(m, key) == None

\* face_vert_index_map.get(&key)
MapGet(m, key) == IF key \in DOMAIN m THEN Some(m[key]) ELSE None

MapInsertNext(m, key, i) ==
    [k \in DOMAIN m \cup {key} |-> IF k = key THEN i + 1 ELSE m[k]]

\* face_vert_index_map.insert(key, i)
MapInsert(m, key, i) == [k \in DOMAIN m \cup {key} |-> IF k = key THEN i ELSE m[k]]

NewSlotAfterPush(mv) == Len(mv) + 1

\* the slot of a new vertex: model_verts.len() before the push
NewSlot(mv) == Len(mv)

\* the texture coordinate of a new vertex
TexCoordsOf(key, ru) == OptUnwrapOr(VecGet(ru, WrappingSubOne(key[2])), <<0, 0>>)

\* the normal of a new vertex
NormalOf(key, rn) == OptUnwrapOr(VecGet(rn, WrappingSubOne(key[3])), <<0, 0, 0>>)

\* the ModelVertex pushed for a key seen for the first time
NewVertex(key, rv, ru, rn) ==
    [position |-> rv[WrappingSubOne(key[1]) + 1],
     tex_coords |-> TexCoordsOf(key, ru),
     normal |-> NormalOf(key, rn),
     tangent |-> <<0, 0, 0>>,
     bitangent |-> <<0, 0, 0>>]

\* building that vertex panics: a subtraction overflows in a build that
\* traps it, or raw_verts is indexed out of bounds
NewVertexPanics(key, rv, checks) ==
    \/ checks /\ (key[1] = 0 \/ key[2] = 0 \/ key[3] = 0)
    \/ WrappingSubOne(key[1]) >= Len(rv)

(***************************************************************************)
(* The lines a file is made of.                                            *)
(***************************************************************************)
Floats(n) == [i \in 1..n |-> Num(1)]
VecTokSeqs == {Floats(n) : n \in 0..MaxVecToks}
                  \cup {<<BadTok>>, <<Num(1), BadTok, Num(1)>>}
Names == {Word(1), Word(2)}

VecLines == [head : {<<"v">>, <<"v", "n">>, <<"v", "t">>, <<"v", "p">>},
             toks : VecTokSeqs]
FaceLines == [head : {<<"f">>}, toks : {<<>>}]
MtlRefLines == [head : {<<"m", "t", "l", "l", "i", "b">>,
                        <<"u", "s", "e", "m", "t", "l">>},
                toks : {<<>>} \cup {<<n>> : n \in Names}]
PlainLines == {[head |-> <<"#">>, toks |-> <<Word(1)>>],
               [head |-> <<"g">>, toks |-> <<Word(1)>>],
               [head |-> <<>>, toks |-> <<>>]}
Lines == VecLines \cup FaceLines \cup MtlRefLines \cup PlainLines

\* the lines of a file whose records are all well formed
GoodLines ==
    {[head |-> <<"v">>, toks |-> Floats(3)],
     [head |-> <<"v", "t">>, toks |-> Floats(2)],
     [head |-> <<"v", "n">>, toks |-> Floats(3)],
     [head |-> <<"#">>, toks |-> <<Word(1)>>],
     [head |-> <<"g">>, toks |-> <<Word(1)>>]}
        \cup FaceLines

FaceTokens ==
    {<<Idx(1), Idx(1), Idx(1)>>, <<Idx(1), Empty, Idx(1)>>, <<Idx(1)>>,
     <<Idx(2), Idx(1), Idx(1)>>, <<Idx(1), Idx(2), Idx(1)>>,
     <<Idx(1), Idx(1), Idx(2)>>, <<Idx(1), Idx(0), Idx(1)>>,
     <<Idx(0), Idx(1), Idx(1)>>}
OneToken == {<<Idx(1), Idx(1), Idx(1)>>}

\* tokens with a group that is no index of a record: not a number, zero,
\* or negative
OddTokens ==
    {<<Idx(1), Idx(1), Idx(1)>>, <<Idx(2), Idx(1), Idx(1)>>,
     <<BadGroup, Idx(1), Idx(1)>>, <<Idx(1), BadGroup, Idx(1)>>,
     <<Idx(1), Idx(0), Idx(1)>>, <<Idx(1), Idx(1), Idx(0)>>,
     <<Idx(1), Neg(1), Idx(1)>>, <<Idx(1), Idx(1), Neg(1)>>}

(***************************************************************************)
(* parse_obj.                                                              *)
(***************************************************************************)
NoLine == [head |-> <<>>, toks |-> <<>>]
NoMap == [k \in {} |-> 0]

\* ParsedMTL::default()
DefaultMTL ==
    [name |-> None, ka |-> None, kd |-> None, ks |-> None, ns |-> None,
     d |-> None, ni |-> None, illum |-> None, map_bump |-> None,
     map_kd |-> None]

\* parse_mtl and parse_all_mtls are not running
MtlIdle ==
    /\ mpc = "idle"
    /\ mname = <<>>
    /\ mread = 0
    /\ mline = NoLine
    /\ mfile = <<>>
    /\ match_found = FALSE
    /\ parsed = DefaultMTL
    /\ first_mtl = TRUE
    /\ current_parsed = DefaultMTL
    /\ all_parsed = <<>>
    /\ merr = None

\* parse_obj is not running
ObjIdle ==
    /\ pc = "idle"
    /\ overflow_checks = FALSE
    /\ nread = 0
    /\ line = NoLine
    /\ raw_verts = <<>>
    /\ raw_uvs = <<>>
    /\ raw_normals = <<>>
    /\ face_vert_index_map = NoMap
    /\ indices = <<>>
    /\ model_verts = <<>>
    /\ material = None
    /\ material_lib = None
    /\ err = None
    /\ tokens = <<>>
    /\ refs = <<>>

\* the tangent pass is not running
TbIdle ==
    /\ tpc = "idle"
    /\ variant = "none"
    /\ verts = <<>>
    /\ inds = <<>>
    /\ chunk = 0
    /\ vi = 0
    /\ vertex_face_count = <<>>
    /\ index_count = None
    /\ material_slot = 0
    /\ mesh_material = None
    /\ given = <<>>
    /\ fin_count = <<>>

Init ==
    /\ pc = "line"
    /\ overflow_checks \in BOOLEAN
    /\ nread = 0
    /\ line = NoLine
    /\ raw_verts = <<>>
    /\ raw_uvs = <<>>
    /\ raw_normals = <<>>
    /\ face_vert_index_map = NoMap
    /\ indices = <<>>
    /\ model_verts = <<>>
    /\ material = None
    /\ material_lib = None
    /\ err = None
    /\ tokens = <<>>
    /\ refs = <<>>
    /\ MtlIdle
    /\ TbIdle

IsMtllib(l) == l.head = <<"m", "t", "l", "l", "i", "b">>
IsUsemtl(l) == l.head = <<"u", "s", "e", "m", "t", "l">>
IsRefLine(l) == IsMtllib(l) \/ IsUsemtl(l)

\* file.lines().enumerate() yields the next line l; its linenum is nread
\* how many lines the files have at most: files that are parsed only, and
\* files a mesh is built from
LineLimit == IF tpc = "idle" THEN MaxLines ELSE MaxFileLines

Reads(l) ==
    /\ pc = "line"
    /\ nread < LineLimit
    /\ line' = l
    /\ nread' = nread + 1
    /\ refs' = IF IsRefLine(l) THEN Append(refs, l) ELSE refs
    /\ UNCHANGED others

\* the number the loop gives the line it is at
Linenum(n) == n

\* the filepath argument, and the text read from it
filepath == "filepath"
file == "file"

ParseError(path, linenum, msg) ==
    Some([file |-> path, line |-> linenum, msg |-> msg])

\* a line starting with "#"
Comment(L) ==
    \E l \in L :
        /\ Reads(l)
        /\ StartsWith(l.head, <<"#">>)
        /\ UNCHANGED <<pc, overflow_checks, raw_verts, raw_uvs, raw_normals,
                       face_vert_index_map, indices, model_verts, material,
                       material_lib, err, tokens>>

\* a line starting with "f": parse_face_line returns Ok, the loop over its
\* face-vertices begins
FaceLine(L) ==
    \E l \in L :
        /\ Reads(l)
        /\ ~StartsWith(l.head, <<"#">>)
        /\ StartsWith(l.head, <<"f">>)
        /\ pc' = "face"
        /\ UNCHANGED <<overflow_checks, raw_verts, raw_uvs, raw_normals,
                       face_vert_index_map, indices, model_verts, material,
                       material_lib, err, tokens>>

\* one iteration of `for face_vert in vvi`, on the next token ft of the line
FaceVert(T) ==
    \E ft \in T :
        /\ pc = "face"
        /\ Len(tokens) < MaxInds
        /\ line' = [line EXCEPT !.toks = Append(@, ft)]
        /\ LET face_vert == parse_face_vert(ft)
               key == <<face_vert[1], face_vert[2], face_vert[3]>>
               found == MapGet(face_vert_index_map, key)
           IN  IF found # None
               THEN /\ indices' = Append(indices, found[1])
                    /\ tokens' = Append(tokens, ft)
                    /\ UNCHANGED <<pc, model_verts, face_vert_index_map>>
               ELSE IF NewVertexPanics(key, raw_verts, overflow_checks)
               THEN /\ pc' = "panic"
                    /\ UNCHANGED <<indices, tokens, model_verts,
                                   face_vert_index_map>>
               ELSE LET i == NewSlot(model_verts)
                    IN  /\ model_verts' = Append(model_verts,
                               NewVertex(key, raw_verts, raw_uvs, raw_normals))
                        /\ face_vert_index_map' =
                               MapInsert(face_vert_index_map, key, i)
                        /\ indices' = Append(indices, i)
                        /\ tokens' = Append(tokens, ft)
                        /\ pc' = pc
        /\ UNCHANGED <<overflow_checks, nread, raw_verts, raw_uvs,
                       raw_normals, material, material_lib, err, refs>>
        /\ UNCHANGED others

\* the face line has no more face-vertices
FaceLineEnd ==
    /\ pc = "face"
    /\ pc' = "line"
    /\ UNCHANGED <<overflow_checks, nread, line, raw_verts, raw_uvs,
                   raw_normals, face_vert_index_map, indices, model_verts,
                   material, material_lib, err, tokens, refs>>
    /\ UNCHANGED others

\* how many floats the record a vector line stores is read from
Arity(l) ==
    IF StartsWith(l.head, <<"v", "n">>) THEN 3
    ELSE IF StartsWith(l.head, <<"v", "t">>) THEN 2
    ELSE 3

\* a line starting with "v"
VectorLine(L) ==
    \E l \in L :
        /\ Reads(l)
        /\ ~StartsWith(l.head, <<"#">>)
        /\ ~StartsWith(l.head, <<"f">>)
        /\ StartsWith(l.head, <<"v">>)
        /\ LET r == parse_vector_line(l)
               linevec == r[2]
           IN  IF ~IsOk(r)
               THEN /\ pc' = "err"
                    /\ err' = ParseError(file, Linenum(nread),
                                         "could not parse float")
                    /\ UNCHANGED <<raw_verts, raw_uvs, raw_normals>>
               ELSE IF Len(linevec) < Arity(l)
               THEN \* linevec[k] is out of bounds
                    /\ pc' = "panic"
                    /\ UNCHANGED <<raw_verts, raw_uvs, raw_normals, err>>
               ELSE IF StartsWith(l.head, <<"v", "n">>)
               THEN /\ raw_normals' = Append(raw_normals,
                           <<linevec[1], linevec[2], linevec[3]>>)
                    /\ UNCHANGED <<pc, raw_verts, raw_uvs, err>>
               ELSE IF StartsWith(l.head, <<"v", "t">>)
               THEN /\ raw_uvs' = Append(raw_uvs, <<linevec[1], linevec[2]>>)
                    /\ UNCHANGED <<pc, raw_verts, raw_normals, err>>
               ELSE /\ raw_verts' = Append(raw_verts,
                           <<linevec[1], linevec[2], linevec[3]>>)
                    /\ UNCHANGED <<pc, raw_uvs, raw_normals, err>>
        /\ UNCHANGED <<overflow_checks, face_vert_index_map, indices,
                       model_verts, material, material_lib, tokens>>

\* any other line: mtllib, usemtl, or ignored
OtherLine(L) ==
    \E l \in L :
        /\ Reads(l)
        /\ ~StartsWith(l.head, <<"#">>)
        /\ ~StartsWith(l.head, <<"f">>)
        /\ ~StartsWith(l.head, <<"v">>)
        /\ IF StartsWith(l.head, <<"m", "t", "l", "l", "i", "b">>)
           THEN material_lib' = NextToken(l) /\ UNCHANGED material
           ELSE IF StartsWith(l.head, <<"u", "s", "e", "m", "t", "l">>)
           THEN material' = NextToken(l) /\ UNCHANGED material_lib
           ELSE UNCHANGED <<material, material_lib>>
        /\ UNCHANGED <<pc, overflow_checks, raw_verts, raw_uvs, raw_normals,
                       face_vert_index_map, indices, model_verts, err, tokens>>

\* the file has no more lines: Ok(ParsedOBJ { .. })
EndOfFile ==
    /\ pc = "line"
    /\ pc' = "ok"
    /\ UNCHANGED <<overflow_checks, nread, line, raw_verts, raw_uvs,
                   raw_normals, face_vert_index_map, indices, model_verts,
                   material, material_lib, err, tokens, refs>>
    /\ UNCHANGED others

\* parse_obj on the files made of the lines L, with face-vertex tokens T
ParseObj(L, T) ==
    \/ Comment(L)
    \/ FaceLine(L)
    \/ FaceVert(T)
    \/ FaceLineEnd
    \/ VectorLine(L)
    \/ OtherLine(L)
    \/ EndOfFile

\* files of well-formed records, every kind of face-vertex token
Next == ParseObj(GoodLines, FaceTokens)
Spec == Init /\ [][Next]_vars

\* files of every kind of line, one kind of face-vertex token
NextLines == ParseObj(Lines, OneToken)
SpecLines == Init /\ [][NextLines]_vars

\* files of well-formed records, face-vertex tokens with odd groups
NextOdd == ParseObj(GoodLines, OddTokens)
SpecOdd == Init /\ [][NextOdd]_vars

(***************************************************************************)
(* parse_mtl and parse_all_mtls.                                           *)
(***************************************************************************)
\* a token that is a name or a file name, as its characters
NameTok(cs) == <<"name", cs>>
TokText(tok) == IF tok[1] = "name" THEN tok[2] ELSE <<"0">>

RECURSIVE TailText(_)
TailText(toks) ==
    IF toks = <<>> THEN <<>>
    ELSE <<" ">> \o TokText(Head(toks)) \o TailText(Tail(toks))

\* the text of a line whose tokens are one space apart
Text(l) == l.head \o TailText(l.toks)

red == <<"r", "e", "d">>
redder == <<"r", "e", "d", "d", "e", "r">>
blue == <<"b", "l", "u", "e">>
newmtl == <<"n", "e", "w", "m", "t", "l">>

\* the lines of a material file
MtlLines ==
    {[head |-> newmtl, toks |-> <<NameTok(n)>>] : n \in {red, redder, blue}}
    \cup {[head |-> <<"#">>, toks |-> <<>>],
          [head |-> <<"K", "d">>, toks |-> <<Num(1), Num(0), Num(0)>>],
          [head |-> <<"K", "d">>, toks |-> <<Num(0), Num(1), Num(0)>>],
          [head |-> <<"K", "d">>, toks |-> <<BadTok, Num(0), Num(0)>>],
          [head |-> <<"K", "a">>, toks |-> <<Num(1), Num(1)>>],
          [head |-> <<"K", "s">>, toks |-> <<Num(1), Num(1), Num(1)>>],
          [head |-> <<"N", "s">>, toks |-> <<Num(1)>>],
          [head |-> <<"d">>, toks |-> <<Num(1)>>],
          [head |-> <<"N", "i">>, toks |-> <<Num(1)>>],
          [head |-> <<"i", "l", "l", "u", "m">>, toks |-> <<Num(2)>>],
          [head |-> <<"m", "a", "p", "_", "K", "d">>, toks |-> <<NameTok(red)>>],
          [head |-> <<"m", "a", "p", "_", "B", "u", "m", "p">>,
           toks |-> <<NameTok(blue)>>],
          [head |-> <<"d", "i", "s", "p">>, toks |-> <<NameTok(red)>>],
          [head |-> <<"K", "e">>, toks |-> <<Num(0), Num(0), Num(0)>>]}

\* line.split_ascii_whitespace().nth(1).unwrap_or("").parse::<f32>()
parse_float_line(l) == IF Len(l.toks) >= 1 THEN ParseF32(l.toks[1]) ELSE Err

\* `f as u16`
AsU16(f) == IF f < 0 THEN 0 ELSE IF f > 65535 THEN 65535 ELSE f

MtlParseError(path, linenum, msg) ==
    Some([file |-> path, line |-> linenum, msg |-> msg])

Done(p) == [kind |-> "ok", parsed |-> p, err |-> None]
Failed(linenum, what) ==
    [kind |-> "err", parsed |-> DefaultMTL,
     err |-> MtlParseError(filepath, linenum, <<"could not parse", what>>)]
Panicked == [kind |-> "panic", parsed |-> DefaultMTL, err |-> None]

\* the value of a color line: three floats of parse_vector_line
Color(l) ==
    LET r == parse_vector_line(l)
        v == r[2]
    IN  IF ~IsOk(r) THEN [kind |-> "err", val |-> None]
        ELSE IF Len(v) < 3 THEN [kind |-> "panic", val |-> None]
        ELSE [kind |-> "ok", val |-> Some(<<v[1], v[2], v[3]>>)]

\* the value of a scalar line: the float of parse_float_line
Scalar(l) ==
    LET r == parse_float_line(l)
    IN  IF ~IsOk(r) THEN [kind |-> "err", val |-> 0]
        ELSE [kind |-> "ok", val |-> r[2]]

\* what a branch of parse_mtl_line comes to: the record p with the value
\* stored, the error of err_closure(what), or a panic
Branch(r, linenum, what, p) ==
    IF r.kind = "ok" THEN Done(p)
    ELSE IF r.kind = "err" THEN Failed(linenum, what)
    ELSE Panicked

parse_mtl_line(p, l, linenum) ==
    IF StartsWith(l.head, <<"K", "a">>)
    THEN Branch(Color(l), linenum, "Ka", [p EXCEPT !.ka = Color(l).val])
    ELSE IF StartsWith(l.head, <<"K", "d">>)
    THEN Branch(Color(l), linenum, "Kd", [p EXCEPT !.kd = Color(l).val])
    ELSE IF StartsWith(l.head, <<"K", "s">>)
    THEN Branch(Color(l), linenum, "Ks", [p EXCEPT !.ks = Color(l).val])
    ELSE IF StartsWith(l.head, <<"N", "s">>)
    THEN Branch(Scalar(l), linenum, "Ns",
                [p EXCEPT !.ns = Some(Scalar(l).val)])
    ELSE IF StartsWith(l.head, <<"d">>)
    THEN Branch(Scalar(l), linenum, "d",
                [p EXCEPT !.d = Some(Scalar(l).val)])
    ELSE IF StartsWith(l.head, <<"n", "i">>)
    THEN Branch(Scalar(l), linenum, "ni",
                [p EXCEPT !.ni = Some(Scalar(l).val)])
    ELSE IF StartsWith(l.head, <<"i", "l", "l", "u", "m">>)
    THEN Branch(Scalar(l), linenum, "illum",
                [p EXCEPT !.illum = Some(AsU16(Scalar(l).val))])
    ELSE IF StartsWith(l.head, <<"m", "a", "p", "_", "B", "u", "m", "p">>)
    THEN Done([p EXCEPT !.map_bump = NextToken(l)])
    ELSE IF StartsWith(l.head, <<"m", "a", "p", "_", "K", "d">>)
    THEN Done([p EXCEPT !.map_kd = NextToken(l)])
    ELSE Done(p)

\* format!("newmtl {}", name)
mtl_line_match(name) == newmtl \o <<" ">> \o name

\* file.lines().enumerate() yields the next line l; its linenum is mread
MtlReads(l) ==
    /\ mpc = "line"
    /\ mread < MaxMtlLines
    /\ mline' = l
    /\ mread' = mread + 1
    /\ mfile' = Append(mfile, l)
    /\ UNCHANGED <<objvars, tbvars>>

\* parse_mtl(filepath, name) has read the file
MtlInit(N) ==
    /\ ObjIdle
    /\ TbIdle
    /\ mpc = "line"
    /\ mname \in N
    /\ mread = 0
    /\ mline = NoLine
    /\ mfile = <<>>
    /\ match_found = FALSE
    /\ parsed = DefaultMTL
    /\ first_mtl = TRUE
    /\ current_parsed = DefaultMTL
    /\ all_parsed = <<>>
    /\ merr = None

\* a line starting with "#"
MtlComment(M) ==
    \E l \in M :
        /\ MtlReads(l)
        /\ StartsWith(Text(l), <<"#">>)
        /\ UNCHANGED <<mpc, mname, match_found, parsed, first_mtl,
                       current_parsed, all_parsed, merr>>

\* a line starting with "newmtl": the material asked for begins, or the
\* loop breaks at the end of it and Ok(parsed) is returned
MtlNewmtl(M) ==
    \E l \in M :
        /\ MtlReads(l)
        /\ ~StartsWith(Text(l), <<"#">>)
        /\ StartsWith(Text(l), newmtl)
        /\ IF StartsWith(Text(l), mtl_line_match(mname))
           THEN /\ parsed' = [parsed EXCEPT !.name = Some(mname)]
                /\ match_found' = TRUE
                /\ mpc' = mpc
           ELSE /\ mpc' = IF match_found THEN "ok" ELSE mpc
                /\ UNCHANGED <<parsed, match_found>>
        /\ UNCHANGED <<mname, first_mtl, current_parsed, all_parsed, merr>>

\* any other line, once the material was found
MtlProperty(M) ==
    \E l \in M :
        /\ MtlReads(l)
        /\ ~StartsWith(Text(l), <<"#">>)
        /\ ~StartsWith(Text(l), newmtl)
        /\ match_found
        /\ LET r == parse_mtl_line(parsed, l, Linenum(mread))
           IN  /\ mpc' = IF r.kind = "ok" THEN mpc ELSE r.kind
               /\ parsed' = IF r.kind = "ok" THEN r.parsed ELSE parsed
               /\ merr' = r.err
        /\ UNCHANGED <<mname, match_found, first_mtl, current_parsed,
                       all_parsed>>

\* any other line, before the material was found
MtlSkip(M) ==
    \E l \in M :
        /\ MtlReads(l)
        /\ ~StartsWith(Text(l), <<"#">>)
        /\ ~StartsWith(Text(l), newmtl)
        /\ ~match_found
        /\ UNCHANGED <<mpc, mname, match_found, parsed, first_mtl,
                       current_parsed, all_parsed, merr>>

\* the file has no more lines
MtlEnd ==
    /\ mpc = "line"
    /\ mpc' = IF ~match_found THEN "notfound" ELSE "ok"
    /\ UNCHANGED <<mname, mread, mline, mfile, match_found, parsed,
                   first_mtl, current_parsed, all_parsed, merr>>
    /\ UNCHANGED <<objvars, tbvars>>

ParseMtl(M) ==
    \/ MtlComment(M)
    \/ MtlNewmtl(M)
    \/ MtlProperty(M)
    \/ MtlSkip(M)
    \/ MtlEnd

NextMtl == ParseMtl(MtlLines)
SpecMtl == MtlInit({red}) /\ [][NextMtl]_vars

\* parse_all_mtls: a line starting with "#"
AllComment(M) ==
    \E l \in M :
        /\ MtlReads(l)
        /\ StartsWith(Text(l), <<"#">>)
        /\ UNCHANGED <<mpc, mname, match_found, parsed, first_mtl,
                       current_parsed, all_parsed, merr>>

\* a line starting with "newmtl"
AllNewmtl(M) ==
    \E l \in M :
        /\ MtlReads(l)
        /\ ~StartsWith(Text(l), <<"#">>)
        /\ StartsWith(Text(l), newmtl)
        /\ first_mtl' = FALSE
        /\ all_parsed' = IF first_mtl THEN all_parsed
                         ELSE Append(all_parsed, current_parsed)
        /\ current_parsed' =
              [(IF first_mtl THEN current_parsed ELSE DefaultMTL)
                  EXCEPT !.name = IF Len(l.toks) >= 1
                                  THEN Some(TokText(l.toks[1])) ELSE None]
        /\ UNCHANGED <<mpc, mname, match_found, parsed, merr>>

\* any other line
AllProperty(M) ==
    \E l \in M :
        /\ MtlReads(l)
        /\ ~StartsWith(Text(l), <<"#">>)
        /\ ~StartsWith(Text(l), newmtl)
        /\ LET r == parse_mtl_line(current_parsed, l, Linenum(mread))
           IN  /\ mpc' = IF r.kind = "ok" THEN mpc ELSE r.kind
               /\ current_parsed' =
                     IF r.kind = "ok" THEN r.parsed ELSE current_parsed
               /\ merr' = r.err
        /\ UNCHANGED <<mname, match_found, parsed, first_mtl, all_parsed>>

\* the file has no more lines: the record at hand is pushed
AllEnd ==
    /\ mpc = "line"
    /\ mpc' = "ok"
    /\ all_parsed' = Append(all_parsed, current_parsed)
    /\ UNCHANGED <<mname, mread, mline, mfile, match_found, parsed,
                   first_mtl, current_parsed, merr>>
    /\ UNCHANGED <<objvars, tbvars>>

ParseAllMtls(M) ==
    \/ AllComment(M)
    \/ AllNewmtl(M)
    \/ AllProperty(M)
    \/ AllEnd

NextAllMtls == ParseAllMtls(MtlLines)
SpecAllMtls == MtlInit({<<>>}) /\ [][NextAllMtls]_vars

(***************************************************************************)
(* Vectors of the tangent pass.  The inputs below are integers; sums,     *)
(* differences and products are rounded as f32 rounds them.  NaN is the    *)
(* vector whose components are all NaN, and <<"unit", p>> is p scaled to   *)
(* length 1 where that is no integer vector.                               *)
(***************************************************************************)
NaN == <<"NaN">>
IsNaN(a) == Len(a) = 1
IsUnit(a) == Len(a) = 2

Abs(x) == IF x < 0 THEN 0 - x ELSE x

RECURSIVE GCD(_, _)
GCD(a, b) == IF b = 0 THEN a ELSE GCD(b, a % b)

\* x / d where d divides x
Quot(x, d) == IF d > 0 THEN x \div d ELSE (0 - x) \div (0 - d)

\* integers up to 2^24 are f32 values; beyond, f32 values are 2, 4, ... apart
F32Exact == 16777216

\* the distance of the f32 values around a, a >= 0
RECURSIVE Ulp(_)
Ulp(a) == IF a <= F32Exact THEN 1 ELSE 2 * Ulp((a + 1) \div 2)

\* the f32 value nearest to the integer x, ties to the even mantissa
RoundF32(x) ==
    LET a == Abs(x)
        u == Ulp(a)
        q == a \div u
        r == a % u
        m == IF 2 * r < u THEN q
             ELSE IF 2 * r > u THEN q + 1
             ELSE IF q % 2 = 0 THEN q ELSE q + 1
    IN  IF x < 0 THEN 0 - m * u ELSE m * u

\* the f32 sum of two f32 values that are integers
AddF32(x, y) == RoundF32(x + y)

Vec3Add(a, b) ==
    IF IsNaN(a) \/ IsNaN(b) THEN NaN
    ELSE <<AddF32(a[1], b[1]), AddF32(a[2], b[2]), AddF32(a[3], b[3])>>
Vec3Sub(a, b) ==
    IF IsNaN(a) \/ IsNaN(b) THEN NaN
    ELSE <<RoundF32(a[1] - b[1]), RoundF32(a[2] - b[2]),
           RoundF32(a[3] - b[3])>>
Vec2Sub(a, b) == <<a[1] - b[1], a[2] - b[2]>>
Scale(a, k) ==
    IF IsNaN(a) THEN NaN
    ELSE <<RoundF32(a[1] * k), RoundF32(a[2] * k), RoundF32(a[3] * k)>>
DivVec(a, d) == <<Quot(a[1], d), Quot(a[2], d), Quot(a[3], d)>>

\* the f32 value nearest to n / d, ties to the even mantissa, for n >= 0,
\* d > 0 and a quotient that is an integer or at least 2^23
RoundRatio(n, d) ==
    LET u == Ulp(n \div d)
        q == n \div (d * u)
        r == n % (d * u)
        m == IF 2 * r < d * u THEN q
             ELSE IF 2 * r > d * u THEN q + 1
             ELSE IF q % 2 = 0 THEN q ELSE q + 1
    IN  m * u

\* the f32 quotient x / d
DivF32(x, d) ==
    IF (x < 0) = (d < 0) THEN RoundRatio(Abs(x), Abs(d))
    ELSE 0 - RoundRatio(Abs(x), Abs(d))

\* 1.0 / d in f32 is a 24-bit mantissa over 2^RecipExponent(d), for d > 0
RecipExponent(d) == CHOOSE e \in 23..28 :
                        /\ 2^e >= d * 2^23
                        /\ \A k \in 23..(e - 1) : 2^k < d * 2^23

\* the f32 product of a >= 0 and 1.0 / d, 0 < d <= 4: a / d plus a times
\* the error of the reciprocal, rounded once; for a product that is an
\* integer or at least 2^23
MulRecipAbs(a, d) ==
    LET e == RecipExponent(d)
        mantissa == RoundRatio(2^e, d)
        c == mantissa * d - 2^e
        u == Ulp(a \div d)
        den == d * u * 2^e
        num == (a % (d * u)) * 2^e + a * c
        q == (a \div (d * u)) + (num \div den)
        r == num % den
        m == IF 2 * r < den THEN q
             ELSE IF 2 * r > den THEN q + 1
             ELSE IF q % 2 = 0 THEN q ELSE q + 1
    IN  m * u

\* x * r, r being 1.0 / d
MulRecip(x, d) ==
    IF (x < 0) = (d < 0) THEN MulRecipAbs(Abs(x), Abs(d))
    ELSE 0 - MulRecipAbs(Abs(x), Abs(d))

\* Vector3 / det_denom, of from_verts_inds
Vec3Div(a, d) == <<DivF32(a[1], d), DivF32(a[2], d), DivF32(a[3], d)>>

\* Vector3 * r, of calculate_tbs
Vec3MulRecip(a, d) == <<MulRecip(a[1], d), MulRecip(a[2], d), MulRecip(a[3], d)>>
Negate(a) == Scale(a, -1)
Dot(a, b) == a[1] * b[1] + a[2] * b[2] + a[3] * b[3]
Cross(a, b) ==
    IF IsNaN(a) \/ IsNaN(b) THEN NaN
    ELSE <<a[2] * b[3] - a[3] * b[2],
           a[3] * b[1] - a[1] * b[3],
           a[1] * b[2] - a[2] * b[1]>>

unit_y == <<0, 1, 0>>
unit_z == <<0, 0, 1>>
Zero3 == <<0, 0, 0>>

\* the shortest integer vector in the direction of w
Primitive(w) == DivVec(w, GCD(GCD(Abs(w[1]), Abs(w[2])), Abs(w[3])))

\* w.normalize(): w over its length, 0/0 for the zero vector
normalize(w) ==
    IF IsNaN(w) THEN NaN
    ELSE IF w = Zero3 THEN NaN
    ELSE IF Abs(Primitive(w)[1]) + Abs(Primitive(w)[2])
               + Abs(Primitive(w)[3]) = 1 THEN Primitive(w)
    ELSE <<"unit", Primitive(w)>>

\* an integer vector along a
Along(a) == IF IsUnit(a) THEN a[2] ELSE a

(***************************************************************************)
(* The tangent pass: Mesh::from_verts_inds and calculate_tbs.              *)
(***************************************************************************)
Positions == <<<<0, 0, 0>>, <<1, 0, 0>>, <<0, 1, 0>>>>
GoodUvs == <<<<0, 0>>, <<1, 0>>, <<0, 1>>>>
SameUvs == <<<<0, 0>>, <<0, 0>>, <<0, 0>>>>
VertexNormals ==
    {<<0, 0, 1>>, <<0, 0, 0>>, <<0, 0, 2>>, <<1, 0, 0>>, <<2, 0, 0>>}

\* the vertices a loader hands to the pass
VertexArray(uvs, n) ==
    [i \in 1..3 |-> [position |-> Positions[i], tex_coords |-> uvs[i],
                     normal |-> n, tangent |-> Zero3, bitangent |-> Zero3]]
VertexArrays == {VertexArray(uvs, n) : uvs \in {GoodUvs, SameUvs},
                                       n \in VertexNormals}

Triangles == {<<0, 1, 2>>, <<2, 1, 0>>, <<0, 0, 1>>, <<0, 1, 3>>}

\* the index buffers of up to n triangles
RECURSIVE IndexBuffers(_)
IndexBuffers(n) ==
    IF n = 0 THEN {<<>>}
    ELSE IndexBuffers(n - 1)
            \cup {b \o t : b \in {c \in IndexBuffers(n - 1) :
                                      Len(c) = 3 * (n - 1)},
                           t \in Triangles}

\* the material argument of from_verts_inds
MaterialSlots == {0, 1}

\* index buffers whose length is no multiple of 3
RaggedBuffers == {<<0, 1>>, <<0, 1, 2, 0>>}

\* |det_denom| <= DET_EPSILON, DET_EPSILON being 0.0001
IsDegenerate(det_denom) == Abs(det_denom) * 10000 <= 1

det_denom(v0, v1, v2) ==
    LET delta_uv_0_1 == Vec2Sub(v1.tex_coords, v0.tex_coords)
        delta_uv_0_2 == Vec2Sub(v2.tex_coords, v0.tex_coords)
    IN  delta_uv_0_1[1] * delta_uv_0_2[2] - delta_uv_0_1[2] * delta_uv_0_2[1]

\* the vector crossed with the normal where the UVs give no tangent
arb(normal) == IF Abs(normal[3]) * 1000 < 999 THEN unit_z ELSE unit_y

\* the tangent of the triangle (v0, v1, v2): from_verts_inds divides by
\* det_denom, calculate_tbs multiplies by r = 1.0 / det_denom
TriangleTangent(fn, v0, v1, v2) ==
    LET delta_pos_0_1 == Vec3Sub(v1.position, v0.position)
        delta_pos_0_2 == Vec3Sub(v2.position, v0.position)
        delta_uv_0_1 == Vec2Sub(v1.tex_coords, v0.tex_coords)
        delta_uv_0_2 == Vec2Sub(v2.tex_coords, v0.tex_coords)
    IN  IF IsDegenerate(det_denom(v0, v1, v2))
        THEN normalize(Cross(arb(v0.normal), v0.normal))
        ELSE LET numerator == Vec3Sub(Scale(delta_pos_0_1, delta_uv_0_2[2]),
                                      Scale(delta_pos_0_2, delta_uv_0_1[2]))
             IN  IF fn = "from_verts_inds"
                 THEN Vec3Div(numerator, det_denom(v0, v1, v2))
                 ELSE Vec3MulRecip(numerator, det_denom(v0, v1, v2))

\* the bitangent calculate_tbs computes for the triangle
TriangleBitangent(v0, v1, v2) ==
    LET delta_pos_0_1 == Vec3Sub(v1.position, v0.position)
        delta_pos_0_2 == Vec3Sub(v2.position, v0.position)
        delta_uv_0_1 == Vec2Sub(v1.tex_coords, v0.tex_coords)
        delta_uv_0_2 == Vec2Sub(v2.tex_coords, v0.tex_coords)
    IN  IF IsDegenerate(det_denom(v0, v1, v2))
        THEN Cross(v0.normal, TriangleTangent("calculate_tbs", v0, v1, v2))
        ELSE Vec3MulRecip(Vec3Sub(Scale(delta_pos_0_2, delta_uv_0_1[1]),
                                  Scale(delta_pos_0_1, delta_uv_0_2[1])),
                          det_denom(v0, v1, v2))

AssignTangent(sum, t) == t

\* tangent + Vector3::from(verts[i].tangent)
AccumulateTangent(sum, t) == Vec3Add(t, sum)

\* the three assignments to the tangents of a triangle's vertices
AddTangents(vs, ti, t) ==
    LET a == [vs EXCEPT ![ti[1] + 1].tangent = AccumulateTangent(@, t)]
        b == [a EXCEPT ![ti[2] + 1].tangent = AccumulateTangent(@, t)]
    IN  [b EXCEPT ![ti[3] + 1].tangent = AccumulateTangent(@, t)]

\* the three assignments to the bitangents, of calculate_tbs
AddBitangents(vs, ti, t) ==
    LET a == [vs EXCEPT ![ti[1] + 1].bitangent = Vec3Add(t, @)]
        b == [a EXCEPT ![ti[2] + 1].bitangent = Vec3Add(t, @)]
    IN  [b EXCEPT ![ti[3] + 1].bitangent = Vec3Add(t, @)]

\* vertex_face_count[ti[k]] += 1, three times
CountFaces(c, ti) ==
    LET a == [c EXCEPT ![ti[1] + 1] = @ + 1]
        b == [a EXCEPT ![ti[2] + 1] = @ + 1]
    IN  [b EXCEPT ![ti[3] + 1] = @ + 1]

\* (vt - (vn * vn.dot(vt))).normalize()
tangent_gs(v) ==
    IF IsNaN(v.tangent) THEN NaN
    ELSE normalize(Vec3Sub(v.tangent,
                           Scale(v.normal, Dot(v.normal, v.tangent))))

bitangent_unflipped(v) ==
    IF IsNaN(tangent_gs(v)) THEN NaN
    ELSE normalize(Cross(Along(tangent_gs(v)), v.normal))

\* tangent_gs.cross(-vn).normalize()
bitangent_gs(v) ==
    IF IsNaN(tangent_gs(v)) THEN NaN
    ELSE normalize(Cross(Along(tangent_gs(v)), Negate(v.normal)))

\* the vertices after the body of the loop over the chunks, for the chunk ti
AfterChunk(fn, vs, ti) ==
    LET v0 == vs[ti[1] + 1]
        v1 == vs[ti[2] + 1]
        v2 == vs[ti[3] + 1]
        tangent == TriangleTangent(fn, v0, v1, v2)
        bitangent == TriangleBitangent(v0, v1, v2)
    IN  IF fn = "from_verts_inds"
        THEN AddTangents(vs, ti, tangent)
        ELSE AddBitangents(AddTangents(vs, ti, tangent), ti, bitangent)

FinalVertexFlipped(v) ==
    [v EXCEPT !.tangent = tangent_gs(v), !.bitangent = bitangent_gs(v),
              !.normal = Negate(v.normal)]

\* a vertex after the body of the loop over the vertices
FinalVertex(v) ==
    [v EXCEPT !.tangent = tangent_gs(v), !.bitangent = bitangent_gs(v)]

\* the vertices after the whole loop over the chunks of is
RECURSIVE AfterChunks(_, _, _)
AfterChunks(fn, vs, is) ==
    IF is = <<>> THEN vs
    ELSE AfterChunks(fn, AfterChunk(fn, vs, SubSeq(is, 1, 3)),
                     SubSeq(is, 4, Len(is)))

\* the vertices after both loops
AfterPass(fn, vs, is) ==
    [i \in 1..Len(vs) |-> FinalVertex(AfterChunks(fn, vs, is)[i])]

\* the chunk of inds.chunks(3) the loop is at
Chunk == SubSeq(inds, 3 * chunk + 1,
                IF 3 * chunk + 3 <= Len(inds) THEN 3 * chunk + 3 ELSE Len(inds))

\* a loader calls one of the two functions
TbInit ==
    /\ ObjIdle
    /\ MtlIdle
    /\ tpc = "start"
    /\ variant \in {"from_verts_inds", "calculate_tbs"}
    /\ verts \in VertexArrays
    /\ inds \in IndexBuffers(MaxTris) \cup RaggedBuffers
    /\ chunk = 0
    /\ vi = 0
    /\ vertex_face_count = <<>>
    /\ index_count = None
    /\ material_slot \in MaterialSlots
    /\ mesh_material = None
    /\ given = verts
    /\ fin_count = [i \in 1..Len(verts) |-> 0]

\* from_verts_inds asserts inds.len() % 3 == 0; calculate_tbs sets up
\* vertex_face_count
Begin ==
    /\ tpc = "start"
    /\ IF variant = "from_verts_inds"
       THEN /\ tpc' = IF Len(inds) % 3 = 0 THEN "accumulate" ELSE "panic"
            /\ UNCHANGED vertex_face_count
       ELSE /\ tpc' = "accumulate"
            /\ vertex_face_count' = [i \in 1..Len(verts) |-> 0]
    /\ UNCHANGED <<variant, verts, inds, chunk, vi, index_count,
                   material_slot, mesh_material, given, fin_count>>
    /\ UNCHANGED <<objvars, mtlvars>>

\* one iteration of `for ti in inds.chunks(3)`
Accumulate ==
    /\ tpc = "accumulate"
    /\ 3 * chunk < Len(inds)
    /\ LET ti == Chunk
       IN  IF Len(ti) < 3 \/ \E k \in 1..Len(ti) : ti[k] >= Len(verts)
           THEN /\ tpc' = "panic"
                /\ UNCHANGED <<verts, chunk, vertex_face_count>>
           ELSE /\ verts' = AfterChunk(variant, verts, ti)
                /\ vertex_face_count' =
                      IF variant = "from_verts_inds"
                      THEN vertex_face_count
                      ELSE CountFaces(vertex_face_count, ti)
                /\ chunk' = chunk + 1
                /\ tpc' = tpc
    /\ UNCHANGED <<variant, inds, vi, index_count, material_slot,
                   mesh_material, given, fin_count>>
    /\ UNCHANGED <<objvars, mtlvars>>

\* inds.chunks(3) has no more chunks
AccumulateEnd ==
    /\ tpc = "accumulate"
    /\ 3 * chunk >= Len(inds)
    /\ tpc' = "finalize"
    /\ UNCHANGED <<variant, verts, inds, chunk, vi, vertex_face_count,
                   index_count, material_slot, mesh_material, given, fin_count>>
    /\ UNCHANGED <<objvars, mtlvars>>

\* one iteration of the loop over the vertices
Finalize ==
    /\ tpc = "finalize"
    /\ vi < Len(verts)
    /\ verts' = [verts EXCEPT ![vi + 1] = FinalVertex(@)]
    /\ fin_count' = [fin_count EXCEPT ![vi + 1] = @ + 1]
    /\ vi' = vi + 1
    /\ UNCHANGED <<tpc, variant, inds, chunk, vertex_face_count, index_count,
                   material_slot, mesh_material, given>>
    /\ UNCHANGED <<objvars, mtlvars>>

\* the loop over the vertices is over; from_verts_inds returns the Mesh
FinalizeEnd ==
    /\ tpc = "finalize"
    /\ vi >= Len(verts)
    /\ tpc' = "done"
    /\ index_count' = IF variant = "from_verts_inds"
                      THEN Some(Len(inds)) ELSE None
    /\ mesh_material' = IF variant = "from_verts_inds"
                        THEN Some(material_slot) ELSE None
    /\ UNCHANGED <<variant, verts, inds, chunk, vi, vertex_face_count,
                   material_slot, given, fin_count>>
    /\ UNCHANGED <<objvars, mtlvars>>

NextTb ==
    \/ Begin
    \/ Accumulate
    \/ AccumulateEnd
    \/ Finalize
    \/ FinalizeEnd

SpecTb == TbInit /\ [][NextTb]_vars

\* a fan of three triangles around vertex 0, two of them with long edges
FanPositions ==
    <<<<0, 0, 0>>, <<F32Exact, 0, 0>>, <<0, 1, 0>>, <<0 - F32Exact, 0, 0>>,
      <<1, 1, 0>>>>
FanUvs == <<<<0, 0>>, <<1, 0>>, <<0, 1>>, <<1, 0>>, <<1, 0>>>>
FanVertices ==
    [i \in 1..5 |-> [position |-> FanPositions[i], tex_coords |-> FanUvs[i],
                     normal |-> <<0, 0, 1>>, tangent |-> Zero3,
                     bitangent |-> Zero3]]
FanTriangles == {<<0, 1, 2>>, <<0, 3, 2>>, <<0, 4, 2>>}

\* the index buffers of up to n triangles of the fan
RECURSIVE FanBuffers(_)
FanBuffers(n) ==
    IF n = 0 THEN {<<>>}
    ELSE FanBuffers(n - 1)
            \cup {b \o t : b \in {c \in FanBuffers(n - 1) :
                                      Len(c) = 3 * (n - 1)},
                           t \in FanTriangles}

\* a loader calls one of the two functions on the fan
FanInit ==
    /\ ObjIdle
    /\ MtlIdle
    /\ tpc = "start"
    /\ variant \in {"from_verts_inds", "calculate_tbs"}
    /\ verts = FanVertices
    /\ inds \in FanBuffers(MaxFanTris)
    /\ chunk = 0
    /\ vi = 0
    /\ vertex_face_count = <<>>
    /\ index_count = None
    /\ material_slot \in MaterialSlots
    /\ mesh_material = None
    /\ given = verts
    /\ fin_count = [i \in 1..Len(verts) |-> 0]

SpecFan == FanInit /\ [][NextTb]_vars

(***************************************************************************)
(* A triangle whose det_denom is 3: 1.0 / 3.0 is no f32 value.  The       *)
(* coordinates are so large that the quotients are integers in f32.        *)
(***************************************************************************)
WideVertices(n) ==
    LET positions == <<<<0, 0, 0>>,
                       <<3 * (F32Exact \div 2) + 4, 3 * (F32Exact \div 2), 0>>,
                       <<0, 1, 0>>>>
        uvs == <<<<0, 0>>, <<3, 0>>, <<0, 1>>>>
    IN  [i \in 1..3 |-> [position |-> positions[i], tex_coords |-> uvs[i],
                         normal |-> n, tangent |-> Zero3,
                         bitangent |-> Zero3]]
WideTriangles == {<<0, 1, 2>>, <<2, 1, 0>>, <<0, 2, 1>>}

\* the index buffers of up to n of these triangles
RECURSIVE WideBuffers(_)
WideBuffers(n) ==
    IF n = 0 THEN {<<>>}
    ELSE WideBuffers(n - 1)
            \cup {b \o t : b \in {c \in WideBuffers(n - 1) :
                                      Len(c) = 3 * (n - 1)},
                           t \in WideTriangles}

\* a loader calls one of the two functions on the triangle
WideInit ==
    /\ ObjIdle
    /\ MtlIdle
    /\ tpc = "start"
    /\ variant \in {"from_verts_inds", "calculate_tbs"}
    /\ verts \in {WideVertices(n) : n \in {<<0, 0, 1>>, <<0, 0, 0>>}}
    /\ inds \in WideBuffers(MaxTris)
    /\ chunk = 0
    /\ vi = 0
    /\ vertex_face_count = <<>>
    /\ index_count = None
    /\ material_slot \in MaterialSlots
    /\ mesh_material = None
    /\ given = verts
    /\ fin_count = [i \in 1..Len(verts) |-> 0]

SpecWide == WideInit /\ [][NextTb]_vars

(***************************************************************************)
(* A mesh built from a parsed file: parse_obj, then Mesh::from_verts_inds  *)
(* on the model_verts and indices it returned.                             *)
(***************************************************************************)
\* the lines of a file with one triangle, a set of lines for each place
TriangleFile ==
    <<{[head |-> <<"v">>, toks |-> <<Num(0), Num(0), Num(0)>>]},
      {[head |-> <<"v">>, toks |-> <<Num(1), Num(0), Num(0)>>]},
      {[head |-> <<"v">>, toks |-> <<Num(0), Num(1), Num(0)>>]},
      {[head |-> <<"v", "t">>, toks |-> <<Num(0), Num(0)>>]},
      {[head |-> <<"v", "t">>, toks |-> <<Num(1), Num(0)>>]},
      {[head |-> <<"v", "t">>, toks |-> <<Num(0), Num(1)>>],
       [head |-> <<"#">>, toks |-> <<Word(1)>>]},
      {[head |-> <<"v", "n">>, toks |-> <<Num(0), Num(0), Num(1)>>],
       [head |-> <<"g">>, toks |-> <<Word(1)>>]},
      {[head |-> <<"f">>, toks |-> <<>>]}>>

TriangleTokens ==
    {<<Idx(1), Idx(1), Idx(1)>>, <<Idx(2), Idx(2), Idx(1)>>,
     <<Idx(3), Idx(3), Idx(1)>>, <<Idx(1)>>}

\* parse_obj starts on a file; the mesh is built once it has returned
LoadInit ==
    /\ pc = "line"
    /\ overflow_checks \in BOOLEAN
    /\ nread = 0
    /\ line = NoLine
    /\ raw_verts = <<>>
    /\ raw_uvs = <<>>
    /\ raw_normals = <<>>
    /\ face_vert_index_map = NoMap
    /\ indices = <<>>
    /\ model_verts = <<>>
    /\ material = None
    /\ material_lib = None
    /\ err = None
    /\ tokens = <<>>
    /\ refs = <<>>
    /\ MtlIdle
    /\ tpc = "wait"
    /\ variant = "none"
    /\ verts = <<>>
    /\ inds = <<>>
    /\ chunk = 0
    /\ vi = 0
    /\ vertex_face_count = <<>>
    /\ index_count = None
    /\ material_slot = 0
    /\ mesh_material = None
    /\ given = <<>>
    /\ fin_count = <<>>

\* Mesh::from_verts_inds is called with the model_verts and the indices of
\* the ParsedOBJ
FromParsed ==
    /\ pc = "ok"
    /\ tpc = "wait"
    /\ tpc' = "start"
    /\ variant' = "from_verts_inds"
    /\ verts' = model_verts
    /\ inds' = indices
    /\ given' = model_verts
    /\ fin_count' = [i \in 1..Len(model_verts) |-> 0]
    /\ material_slot' \in MaterialSlots
    /\ UNCHANGED <<chunk, vi, vertex_face_count, index_count, mesh_material>>
    /\ UNCHANGED <<objvars, mtlvars>>

NextLoad ==
    \/ ParseObj(IF nread < Len(TriangleFile) THEN TriangleFile[nread + 1]
                ELSE {},
                TriangleTokens)
    \/ FromParsed
    \/ NextTb

SpecLoad == LoadInit /\ [][NextLoad]_vars

(***************************************************************************)
(* What the file says, for the statements below.                           *)
(***************************************************************************)
\* the (position, uv, normal) groups a face-vertex token gives, Empty where
\* it gives none
WrittenTriple(ft) == [i \in 1..3 |-> IF i <= Len(ft) THEN ft[i] ELSE Empty]
UvOmitted(ft) == WrittenTriple(ft)[2] = Empty
NormalOmitted(ft) == WrittenTriple(ft)[3] = Empty

\* the key the parser gives a token
KeyOf(ft) == parse_face_vert(ft)

\* the vertex the k-th face-vertex of the file was resolved to
VertexAt(k) == model_verts[indices[k] + 1]

IsFaceLine(l) == l.head = <<"f">>
Mentions == 1..Len(tokens)

\* C1: when parse_obj accepts a file, model_verts has one vertex per distinct
\* (position, uv, normal) triple its face lines give, and face-vertices that
\* give equal triples share a vertex.
C1_VertexPerWrittenTriple ==
    pc = "ok" =>
        /\ Len(model_verts)
              = Cardinality({WrittenTriple(tokens[k]) : k \in Mentions})
        /\ \A j, k \in Mentions :
              WrittenTriple(tokens[j]) = WrittenTriple(tokens[k])
                  => indices[j] = indices[k]

\* C2: every value of the index buffer is less than the length of model_verts.
C2_IndicesInRange ==
    \A k \in 1..Len(indices) : indices[k] >= 0 /\ indices[k] < Len(model_verts)

C2_Witness ==
    /\ pc = "ok"
    /\ Len(indices) = 3
    /\ Len(model_verts) = 2

\* C3: a mesh parse_obj returns has an index count that is a multiple of 3.
C3_IndexCountMultipleOf3 == pc = "ok" => Len(indices) % 3 = 0

\* C4: a face line with fewer than 3 face-vertices is not accepted: once the
\* parser is done with it, it has returned a Parse error that carries the
\* line's number.
C4_ShortFaceLineIsParseError ==
    (IsFaceLine(line) /\ pc \in {"line", "ok", "err"} /\ Len(line.toks) < 3)
        => /\ pc = "err"
           /\ err # None
           /\ err[1].line = nread

\* C5: a face-vertex that omits its uv index has texcoord (0,0), and one that
\* omits its normal index has normal (0,0,0).
C5_OmittedIndexGivesDefault ==
    \A k \in Mentions :
        /\ UvOmitted(tokens[k]) => VertexAt(k).tex_coords = <<0, 0>>
        /\ NormalOmitted(tokens[k]) => VertexAt(k).normal = <<0, 0, 0>>

\* C6: a face-vertex that omits its uv (or normal) index never shares a slot
\* with one that gives that index.
C6_OmittedKeyIsDistinct ==
    \A j, k \in Mentions :
        (\/ UvOmitted(tokens[j]) # UvOmitted(tokens[k])
         \/ NormalOmitted(tokens[j]) # NormalOmitted(tokens[k]))
            => indices[j] # indices[k]

\* the step resolves one more face-vertex
Resolves == Len(tokens') = Len(tokens) + 1

\* the mentions before this step that had the key
Earlier(key) == {k \in Mentions : KeyOf(tokens[k]) = key}

C7_Resolution ==
    Resolves =>
        LET key == KeyOf(tokens'[Len(tokens')])
            slot == indices'[Len(indices')]
        IN  /\ Len(indices') = Len(indices) + 1
            /\ SubSeq(indices', 1, Len(indices)) = indices
            /\ IF Earlier(key) # {}
               THEN /\ \A k \in Earlier(key) : slot = indices[k]
                    /\ model_verts' = model_verts
                    /\ face_vert_index_map' = face_vert_index_map
               ELSE /\ slot = Len(model_verts)
                    /\ Len(model_verts') = Len(model_verts) + 1
                    /\ DOMAIN face_vert_index_map'
                          = DOMAIN face_vert_index_map \cup {key}
                    /\ face_vert_index_map'[key] = slot

C7_SlotsStable ==
    /\ Len(model_verts') >= Len(model_verts)
    /\ SubSeq(model_verts', 1, Len(model_verts)) = model_verts
    /\ \A key \in DOMAIN face_vert_index_map :
          /\ key \in DOMAIN face_vert_index_map'
          /\ face_vert_index_map'[key] = face_vert_index_map[key]

\* C7: the first occurrence of a key appends one vertex and returns its slot,
\* a later occurrence returns that slot and changes neither model_verts nor
\* the map; a slot once assigned never changes.
C7_ResolveFirstSeenOrder == [][C7_Resolution /\ C7_SlotsStable]_vars

C7_Witness ==
    /\ indices = <<0, 1, 0>>
    /\ Len(model_verts) = 2
    /\ KeyOf(tokens[1]) = KeyOf(tokens[3])
    /\ tokens[1] # tokens[3]

\* C8: a Parse error carries the path of the file and the 1-based number of
\* the offending line, the line read last.
C8_ParseErrorPathAndLine ==
    pc = "err" => /\ err # None
                  /\ err[1].file = filepath
                  /\ err[1].line = nread

IsRecordLine(l) == l.head \in {<<"v">>, <<"v", "n">>, <<"v", "t">>}
WrongArity(l) ==
    \/ l.head \in {<<"v">>, <<"v", "n">>} /\ Len(l.toks) # 3
    \/ l.head = <<"v", "t">> /\ Len(l.toks) < 2

\* C9: a position or normal line without exactly 3 floats, or a uv line with
\* fewer than 2, ends in a Parse error.
C9_WrongArityIsParseError ==
    (nread > 0 /\ IsRecordLine(line) /\ WrongArity(line)) => pc = "err"

\* the token gives an index greater than the number of records of its kind
OutOfRange(ft) ==
    LET w == WrittenTriple(ft)
    IN  \/ w[1][1] = "int" /\ w[1][2] > Len(raw_verts)
        \/ w[2][1] = "int" /\ w[2][2] > Len(raw_uvs)
        \/ w[3][1] = "int" /\ w[3][2] > Len(raw_normals)

\* C10: a face-vertex with an index greater than the number of records of
\* its kind read so far ends in a Parse error.
C10_OutOfRangeIsParseError ==
    (IsFaceLine(line) /\ \E i \in 1..Len(line.toks) : OutOfRange(line.toks[i]))
        => pc = "err"

\* the token has a group that is not a number, at a place parse_obj reads
HasBadGroup(ft) == \E i \in 1..3 : WrittenTriple(ft)[i] = BadGroup

\* C11: a face line with a group that is not a valid integer ends in a Parse
\* error once the parser has taken the group in; the group is never taken for
\* an index.
C11_BadGroupIsParseError ==
    (/\ IsFaceLine(line)
     /\ pc \in {"face", "line", "ok", "err"}
     /\ \E i \in 1..Len(line.toks) : HasBadGroup(line.toks[i]))
        => pc = "err"

\* a group written as 0 or as a negative number
ZeroOrNegative(g) == g = Idx(0) \/ g[1] = "neg"

\* the token names a position the file has given
PositionInRange(ft) ==
    LET g == WrittenTriple(ft)[1]
    IN  g[1] = "int" /\ g[2] >= 1 /\ g[2] <= Len(raw_verts)

\* C12: a uv or normal index written as 0 or as a negative number is taken as
\* absent: the vertex has texcoord (0,0), or normal (0,0,0), and resolving
\* such a face-vertex does not crash.
C12_ZeroOrNegativeIsAbsent ==
    /\ \A k \in Mentions :
          /\ ZeroOrNegative(WrittenTriple(tokens[k])[2])
                => VertexAt(k).tex_coords = <<0, 0>>
          /\ ZeroOrNegative(WrittenTriple(tokens[k])[3])
                => VertexAt(k).normal = <<0, 0, 0>>
    /\ (pc = "panic" /\ IsFaceLine(line) /\ line.toks # <<>>)
          => LET ft == line.toks[Len(line.toks)]
             IN  ~(/\ PositionInRange(ft)
                   /\ \/ ZeroOrNegative(WrittenTriple(ft)[2])
                      \/ ZeroOrNegative(WrittenTriple(ft)[3]))

\* the first word of a line
Directive(l) == l.head

\* a comment line, or a line of a directive parse_obj has no use for
Ignorable(l) ==
    \/ StartsWith(l.head, <<"#">>)
    \/ Directive(l) \notin {<<"v">>, <<"v", "t">>, <<"v", "n">>, <<"f">>,
                            <<"m", "t", "l", "l", "i", "b">>,
                            <<"u", "s", "e", "m", "t", "l">>}

\* the step reads one more line
ReadsLine == nread' = nread + 1

C13_IgnoredLine ==
    (ReadsLine /\ Ignorable(line'))
        => /\ pc' = pc
           /\ UNCHANGED <<raw_verts, raw_uvs, raw_normals, model_verts,
                          indices, material, material_lib, err>>

C13_NotAPosition ==
    (ReadsLine /\ Directive(line') \in {<<"v", "t">>, <<"v", "n">>})
        => raw_verts' = raw_verts

\* C13: reading a comment line, or a line whose directive is none of v, vt,
\* vn, f, mtllib, usemtl, changes none of positions, uvs, normals, vertices,
\* indices, material and material library and raises no error; reading a vt
\* or vn line never adds a position.
C13_DispatchByDirective == [][C13_IgnoredLine /\ C13_NotAPosition]_vars

\* the name a usemtl or mtllib line gives
NameGiven(l) == IF l.toks = <<>> THEN None ELSE Some(Head(l.toks))

\* what the last of the lines gives, nothing if there is no line
LastGiven(ls) == IF ls = <<>> THEN None ELSE NameGiven(ls[Len(ls)])

\* C14: the material parse_obj returns is the name of the last usemtl line of
\* the file and material_lib the file name of the last mtllib line; each is
\* absent if the file has no such line.
C14_LastReferenceWins ==
    pc = "ok" =>
        /\ material = LastGiven(SelectSeq(refs, IsUsemtl))
        /\ material_lib = LastGiven(SelectSeq(refs, IsMtllib))

C14_Witness ==
    /\ pc = "ok"
    /\ Len(SelectSeq(refs, IsUsemtl)) >= 2
    /\ NameGiven(SelectSeq(refs, IsUsemtl)[1]) = Some(Word(1))
    /\ material = Some(Word(2))
    /\ material_lib = None

(***************************************************************************)
(* What a material file says, for the statements below.                    *)
(***************************************************************************)
IsNewmtlLine(l) == Directive(l) = newmtl
IsCommentLine(l) == StartsWith(l.head, <<"#">>)

\* the line is `newmtl n`
Declares(l, n) == IsNewmtlLine(l) /\ l.toks = <<NameTok(n)>>

\* the places of the newmtl lines read so far, and of those that name n
Newmtls == {k \in 1..Len(mfile) : IsNewmtlLine(mfile[k])}
Exact(n) == {k \in 1..Len(mfile) : Declares(mfile[k], n)}

Least(S) == CHOOSE k \in S : \A j \in S : k <= j

\* the lines between the newmtl line at k and the next one, or the end
Segment(k) ==
    LET later == {j \in Newmtls : j > k}
        end == IF later = {} THEN Len(mfile) + 1 ELSE Least(later)
    IN  SubSeq(mfile, k + 1, end - 1)

\* the line holds exactly n floats
HoldsFloats(l, n) ==
    Len(l.toks) = n /\ \A i \in 1..n : l.toks[i][1] = "num"
FloatsOf(l) == [i \in 1..Len(l.toks) |-> l.toks[i][2]]

RecognizedProperties ==
    {<<"K", "a">>, <<"K", "d">>, <<"K", "s">>, <<"N", "s">>, <<"d">>,
     <<"N", "i">>, <<"i", "l", "l", "u", "m">>,
     <<"m", "a", "p", "_", "B", "u", "m", "p">>,
     <<"m", "a", "p", "_", "K", "d">>}

\* the record after a property line, by the line's directive
Sets(rec, l) ==
    LET dir == Directive(l)
    IN  IF dir = <<"K", "a">> /\ HoldsFloats(l, 3)
        THEN [rec EXCEPT !.ka = Some(FloatsOf(l))]
        ELSE IF dir = <<"K", "d">> /\ HoldsFloats(l, 3)
        THEN [rec EXCEPT !.kd = Some(FloatsOf(l))]
        ELSE IF dir = <<"K", "s">> /\ HoldsFloats(l, 3)
        THEN [rec EXCEPT !.ks = Some(FloatsOf(l))]
        ELSE IF dir = <<"N", "s">> /\ HoldsFloats(l, 1)
        THEN [rec EXCEPT !.ns = Some(FloatsOf(l)[1])]
        ELSE IF dir = <<"d">> /\ HoldsFloats(l, 1)
        THEN [rec EXCEPT !.d = Some(FloatsOf(l)[1])]
        ELSE IF dir = <<"N", "i">> /\ HoldsFloats(l, 1)
        THEN [rec EXCEPT !.ni = Some(FloatsOf(l)[1])]
        ELSE IF dir = <<"i", "l", "l", "u", "m">> /\ HoldsFloats(l, 1)
        THEN [rec EXCEPT !.illum = Some(FloatsOf(l)[1])]
        ELSE IF dir = <<"m", "a", "p", "_", "B", "u", "m", "p">>
        THEN [rec EXCEPT !.map_bump = NameGiven(l)]
        ELSE IF dir = <<"m", "a", "p", "_", "K", "d">>
        THEN [rec EXCEPT !.map_kd = NameGiven(l)]
        ELSE rec

RECURSIVE SetsAll(_, _)
SetsAll(rec, ls) ==
    IF ls = <<>> THEN rec ELSE SetsAll(Sets(rec, Head(ls)), Tail(ls))

\* the record of the material declared at line k, named n
RecordOf(k, n) == SetsAll([DefaultMTL EXCEPT !.name = Some(n)], Segment(k))

\* C15: the record parse_mtl returns for a name the file declares holds
\* exactly what the recognized property lines between that newmtl line and
\* the next newmtl line (or the end of the file) set, and nothing else.
C15_RecordOfNamedSegment ==
    (mpc = "ok" /\ Exact(mname) # {})
        => parsed = RecordOf(Least(Exact(mname)), mname)

MtlFinished == mpc \in {"ok", "notfound", "err", "panic"}

\* C16: parse_mtl ends in MtlNotFound if and only if no newmtl line of the
\* file names exactly the material asked for.
C16_NotFoundIffNotDeclared ==
    MtlFinished => (mpc = "notfound" <=> Exact(mname) = {})

\* a property line of a directive the parsers have no use for
Unrecognized(l) ==
    /\ ~IsCommentLine(l)
    /\ ~IsNewmtlLine(l)
    /\ Directive(l) \notin RecognizedProperties

\* C17: reading a property line whose directive is none of Ka, Kd, Ks, Ns, d,
\* Ni, illum, map_Bump, map_Kd leaves the material record unchanged and
\* raises no error.
C17_UnrecognizedPropertyIgnored ==
    [][(mread' = mread + 1 /\ Unrecognized(mline'))
          => /\ mpc' = mpc
             /\ UNCHANGED <<parsed, current_parsed, all_parsed, merr>>]_vars

\* the field of the record a scalar property line is for
ScalarField(rec, l) ==
    IF Directive(l) = <<"N", "i">> THEN rec.ni
    ELSE IF Directive(l) = <<"d">> THEN rec.d
    ELSE IF Directive(l) = <<"N", "s">> THEN rec.ns
    ELSE rec.illum

\* C18: once a line `Ni x`, `d x`, `Ns x` or `illum x` inside a material's
\* segment is read, the record at hand has x in the field of that directive.
C18_ScalarLineSetsItsField ==
    (/\ Newmtls # {}
     /\ Directive(mline) \in {<<"N", "i">>, <<"d">>, <<"N", "s">>,
                              <<"i", "l", "l", "u", "m">>}
     /\ HoldsFloats(mline, 1))
        => /\ mpc \in {"line", "ok"}
           /\ ScalarField(current_parsed, mline) = Some(FloatsOf(mline)[1])

\* the newmtl lines read so far, in file order
NewmtlLines == SelectSeq(mfile, IsNewmtlLine)

\* the place in the file of the k-th newmtl line
PlaceOf(k) ==
    CHOOSE j \in Newmtls : Cardinality({i \in Newmtls : i <= j}) = k

\* C19: parse_all_mtls returns one record per newmtl line of the file, in
\* file order, each with the name of its line and what the property lines up
\* to the next newmtl line set; no record for a file without newmtl line.
C19_OneRecordPerNewmtl ==
    mpc = "ok" =>
        /\ Len(all_parsed) = Len(NewmtlLines)
        /\ \A k \in 1..Len(all_parsed) :
              k <= Len(NewmtlLines) =>
                  all_parsed[k]
                      = RecordOf(PlaceOf(k), TokText(NewmtlLines[k].toks[1]))

(***************************************************************************)
(* The order of the tangent pass.                                          *)
(***************************************************************************)
AllAccumulated == 3 * chunk >= Len(inds)

\* no vertex is finalized before every triangle is accumulated
C20_FinalizeAfterAccumulation ==
    (\E i \in 1..Len(fin_count) : fin_count[i] > 0)
        => AllAccumulated /\ tpc \in {"finalize", "done"}

\* no vertex is finalized twice, and each is once the pass is done
C20_ExactlyOnce ==
    /\ \A i \in 1..Len(fin_count) : fin_count[i] <= 1
    /\ tpc = "done" => \A i \in 1..Len(fin_count) : fin_count[i] = 1

\* how many corners of the triangle ti are the vertex of index i
Corners(ti, i) == Cardinality({k \in 1..3 : ti[k] = i})

\* a step that accumulates a triangle adds its tangent to the running sum of
\* each of its vertices, once per corner, and leaves the other sums alone
C20_Adds ==
    (chunk' = chunk + 1) =>
        LET ti == Chunk
            t == TriangleTangent(variant, verts[ti[1] + 1], verts[ti[2] + 1],
                                 verts[ti[3] + 1])
        IN  \A i \in 1..Len(verts) :
                verts'[i].tangent =
                    IF Corners(ti, i - 1) = 0 THEN verts[i].tangent
                    ELSE Vec3Add(verts[i].tangent,
                                 Scale(t, Corners(ti, i - 1)))

\* C20: in both variants of the tangent pass a vertex is finalized only after
\* every triangle of the index buffer has been accumulated, and exactly once;
\* during accumulation the tangent of a triangle is added to the running sum
\* of each of its three vertices, not assigned over it.
C20_AccumulateThenFinalizeOnce ==
    /\ [](C20_FinalizeAfterAccumulation /\ C20_ExactlyOnce)
    /\ [][C20_Adds]_vars

C20_Witness ==
    /\ tpc = "done"
    /\ variant = "calculate_tbs"
    /\ inds = <<0, 1, 2, 2, 1, 0>>
    /\ \A i \in 1..Len(verts) : fin_count[i] = 1
    /\ verts[1].tangent = <<1, 0, 0>>

(***************************************************************************)
(* The results of the tangent pass.                                        *)
(***************************************************************************)
\* the ways to order n triangles
Orders(n) == {f \in [1..n -> 1..n] : \A j, k \in 1..n : f[j] = f[k] => j = k}

\* the index buffer with its triples in the order f
Reordered(is, f) ==
    [j \in 1..Len(is) |-> is[3 * (f[((j - 1) \div 3) + 1] - 1) + ((j - 1) % 3) + 1]]

SameBasis(vs, ws) ==
    \A i \in 1..Len(vs) :
        vs[i].tangent = ws[i].tangent /\ vs[i].bitangent = ws[i].bitangent

\* C21: the final tangent and bitangent of every vertex are those the pass
\* gives for the same vertex array with the triples of the index buffer in
\* any other order.
C21_TriangleOrderIrrelevant ==
    tpc = "done" =>
        \A f \in Orders(Len(inds) \div 3) :
            SameBasis(verts, AfterPass(variant, given, Reordered(inds, f)))

\* the vertex of index i is a corner of some triangle of the index buffer
Referenced(i) == \E k \in 1..Len(inds) : inds[k] = i

\* a is a vector of length 1
IsUnitLength(a) ==
    \/ IsUnit(a)
    \/ Len(a) = 3 /\ Abs(a[1]) + Abs(a[2]) + Abs(a[3]) = 1

\* a is a vector at a right angle to n
IsOrthogonal(a, n) == ~IsNaN(a) /\ Dot(Along(a), n) = 0

\* C22: after the final pass every vertex with a nonzero normal, of any
\* length, that some triangle has as a corner has a tangent orthogonal to
\* the normal, and tangent and bitangent of length 1.
C22_OrthonormalForAnyNormal ==
    tpc = "done" =>
        \A i \in 1..Len(verts) :
            (verts[i].normal # Zero3 /\ Referenced(i - 1))
                => /\ IsOrthogonal(verts[i].tangent, verts[i].normal)
                   /\ IsUnitLength(verts[i].tangent)
                   /\ IsUnitLength(verts[i].bitangent)

\* the triangle of the k-th chunk has three equal UVs
SameUvTriangle(k) ==
    LET ti == SubSeq(inds, 3 * k - 2, 3 * k)
    IN  /\ given[ti[1] + 1].tex_coords = given[ti[2] + 1].tex_coords
        /\ given[ti[1] + 1].tex_coords = given[ti[3] + 1].tex_coords

\* C23: a triangle whose three UVs are identical leaves none of its vertices
\* with a NaN tangent or bitangent, whatever the vertex normal, (0,0,0)
\* included.
C23_DegenerateNeverNaN ==
    tpc = "done" =>
        \A k \in 1..(Len(inds) \div 3) :
            SameUvTriangle(k) =>
                \A c \in 1..3 :
                    LET v == verts[inds[3 * (k - 1) + c] + 1]
                    IN  ~IsNaN(v.tangent) /\ ~IsNaN(v.bitangent)

\* C25: a vertex no triangle refers to ends the pass with tangent and
\* bitangent (0,0,0).
C25_UnreferencedStaysZero ==
    tpc = "done" =>
        \A i \in 1..Len(verts) :
            ~Referenced(i - 1)
                => verts[i].tangent = Zero3 /\ verts[i].bitangent = Zero3

(***************************************************************************)
(* From the file to the mesh.                                              *)
(***************************************************************************)
\* the file read is the single triangle: positions (0,0,0), (1,0,0),
\* (0,1,0), UVs (0,0), (1,0), (0,1), one normal (0,0,1), the face line
\* f 1/1/1 2/2/1 3/3/1
SingleTriangle ==
    /\ pc = "ok"
    /\ raw_verts = <<<<0, 0, 0>>, <<1, 0, 0>>, <<0, 1, 0>>>>
    /\ raw_uvs = <<<<0, 0>>, <<1, 0>>, <<0, 1>>>>
    /\ raw_normals = <<<<0, 0, 1>>>>
    /\ tokens = <<<<Idx(1), Idx(1), Idx(1)>>, <<Idx(2), Idx(2), Idx(1)>>,
                  <<Idx(3), Idx(3), Idx(1)>>>>

\* C24: on the single-triangle file parse_obj gives 3 vertices and the
\* indices [0,1,2], and the tangent pass ends with tangent (1,0,0) and
\* bitangent (0,1,0) at each vertex, the bitangent being the one of the
\* formula (e2*d1.x - e1*d2.x)/det.
C24_SingleTriangleEndToEnd ==
    SingleTriangle =>
        /\ Len(model_verts) = 3
        /\ indices = <<0, 1, 2>>
        /\ tpc # "panic"
        /\ tpc = "done" =>
              \A i \in 1..3 :
                  /\ verts[i].tangent = <<1, 0, 0>>
                  /\ verts[i].bitangent = <<0, 1, 0>>
                  /\ verts[i].bitangent
                        = TriangleBitangent(given[1], given[2], given[3])

C24_Witness == SingleTriangle /\ tpc = "done" /\ Len(verts) = 3

\* C26: Mesh::from_verts_inds on the model_verts and indices of a ParsedOBJ
\* that parse_obj returned neither fails its assertion nor indexes out of
\* bounds.
C26_TangentPassTotal == tpc # "panic"

(***************************************************************************)
(* The slots of the index buffer.                                          *)
(***************************************************************************)
\* the index values before place i of the index buffer
IndicesBefore(i) == {indices[j] : j \in 1..(i - 1)}

LargestIndex == CHOOSE n \in IndicesBefore(Len(indices) + 1) :
                    \A k \in IndicesBefore(Len(indices) + 1) : k <= n

\* C27: every vertex of model_verts is referenced by the index buffer, the
\* k-th distinct value of the index buffer is k-1, and the number of
\* vertices is the largest index plus one (0 without faces).
C27_SlotsDenseInFirstUseOrder ==
    /\ \A k \in 0..(Len(model_verts) - 1) :
           \E i \in 1..Len(indices) : indices[i] = k
    /\ \A i \in 1..Len(indices) :
           \/ indices[i] \in IndicesBefore(i)
           \/ indices[i] = Cardinality(IndicesBefore(i))
    /\ Len(model_verts) = IF indices = <<>> THEN 0 ELSE LargestIndex + 1

C27_Witness ==
    /\ pc = "ok"
    /\ Len(model_verts) >= 2
    /\ Len(indices) > Len(model_verts)
    /\ indices[Len(indices)] < Len(model_verts) - 1

(***************************************************************************)
(* What the tangent pass leaves alone.                                     *)
(***************************************************************************)
\* vertex i has the same position, tex_coords and normal in vs and ws
SameAttributes(vs, ws, i) ==
    /\ ws[i].position = vs[i].position
    /\ ws[i].tex_coords = vs[i].tex_coords
    /\ ws[i].normal = vs[i].normal

\* C28: a step of the tangent pass changes neither the number of vertices,
\* nor a position, tex_coords or normal, nor the index buffer, nor the
\* material slot; the mesh it returns has index_count = the length of the
\* index buffer and the material slot given.
C28_OnlyTangentAndBitangentChange ==
    [][ /\ Len(verts') = Len(verts)
        /\ \A i \in 1..Len(verts) : SameAttributes(verts, verts', i)
        /\ inds' = inds
        /\ material_slot' = material_slot
        /\ (tpc' = "done" /\ variant' = "from_verts_inds") =>
               /\ index_count' = Some(Len(inds))
               /\ mesh_material' = Some(material_slot) ]_vars

C28_Witness ==
    /\ tpc = "done"
    /\ variant = "from_verts_inds"
    /\ Len(inds) = 6
    /\ index_count = Some(6)
    /\ \E i \in 1..Len(verts) :
           /\ verts[i].tangent # given[i].tangent
           /\ verts[i].normal = given[i].normal
           /\ verts[i].normal # Zero3

(***************************************************************************)
(* The two variants of the pass.                                           *)
(***************************************************************************)
OtherVariant ==
    IF variant = "from_verts_inds" THEN "calculate_tbs" ELSE "from_verts_inds"

\* C29: the tangents and bitangents a variant ends with are the ones the
\* other variant gives for the same vertex array and index buffer.
C29_VariantsAgree ==
    tpc = "done" => SameBasis(verts, AfterPass(OtherVariant, given, inds))

(***************************************************************************)
(* Lines outside the segment of the material asked for.                    *)
(***************************************************************************)
\* a line of a recognized float property with a token that is no float,
\* like `Kd x y z`
Malformed(l) ==
    /\ Directive(l) \in {<<"K", "a">>, <<"K", "d">>, <<"K", "s">>, <<"N", "s">>,
                         <<"d">>, <<"N", "i">>, <<"i", "l", "l", "u", "m">>}
    /\ \E i \in 1..Len(l.toks) : l.toks[i] = BadTok

\* place j lies in the segment of the material asked for
InSegment(j) ==
    /\ Exact(mname) # {}
    /\ j > Least(Exact(mname))
    /\ \A i \in Newmtls : ~(Least(Exact(mname)) < i /\ i < j)

\* C30: a malformed property line makes parse_mtl return a Parse error only
\* where it lies in the segment of the material asked for, and there it
\* does: no record is returned.
C30_OnlyRequestedSegmentCounts ==
    /\ (mpc = "err" /\ Malformed(mfile[Len(mfile)])) => InSegment(Len(mfile))
    /\ mpc = "ok" =>
           \A j \in 1..Len(mfile) : InSegment(j) => ~Malformed(mfile[j])

====
